---- MODULE Spec2Model ----
(***************************************************************************)
(* Model of holoviews/plotting/mpl/annotation.py: the annotation plots of  *)
(* the matplotlib backend.                                                 *)
(*                                                                         *)
(*  - Spec        the lifecycle of one AnnotationPlot on one axis:         *)
(*                initialize_plot, update_handles, and the axis limit      *)
(*                notifications that drive ABLine2D._update_lim.           *)
(*  - SpecRender  the draw_annotation methods of the eight annotation      *)
(*                kinds and the LabelsPlot get_data / init_artists pair,   *)
(*                applied to inputs drawn from bounded sets.               *)
(*                                                                         *)
(* Numbers are integers; a canvas call is recorded as [fn, args, kw].      *)
(***************************************************************************)
EXTENDS Integers, Sequences, FiniteSets, TLC

VARIABLES
    kind,          \* class of the plot: VLinePlot ... SplinePlot
    invert_axes,   \* self.invert_axes
    phase,         \* "constructed" | "initialized" | "failed"
    annotations,   \* self.handles['annotations']
    children,      \* artists currently registered with the axis
    nextId,        \* identity of the next artist object created
    lines,         \* the ABLine2D objects still referenced, by identity
    callbacks,     \* ABLine2D objects whose _update_lim is connected
    xlim,          \* x view limits of the axis, in the order they were set
    removes,       \* number of remove() calls received by each artist
    staleRuns,     \* lines whose _update_lim ran after their removal
    last,          \* outcome of the last initialize_plot / update_handles
    job,           \* SpecRender: the input of one draw_annotation call
    out,           \* SpecRender: what that call produced
    lab,           \* SpecRender: the LabelsPlot and its element
    stage,         \* SpecRender: "job" -> "drawn", or "new" -> "data" -> "artists"
    labargs,       \* SpecRender: what get_data returned
    labout         \* SpecRender: what init_artists did and returned

lifeVars == <<kind, invert_axes, phase, annotations, children, nextId, lines,
              callbacks, xlim, removes, staleRuns, last>>
renderVars == <<job, out, lab, stage, labargs, labout>>
vars == <<kind, invert_axes, phase, annotations, children, nextId, lines,
          callbacks, xlim, removes, staleRuns, last,
          job, out, lab, stage, labargs, labout>>

----------------------------------------------------------------------------
(* Bounds *)

MaxHandles == 4     \* artists created during one behaviour
MaxCoord == 2       \* coordinates range over 0..MaxCoord
MaxVerts == 2       \* vertices of a spline
MaxPoints == 2      \* points of a Labels element

Coords == 0..MaxCoord
Ids == 1..MaxHandles
NoValue == "None"
NaN == -1           \* np.NaN, the index of no color
\* an optional value: None, or the value wrapped
None == <<>>
Some(v) == <<v>>
Unbound == <<>>     \* a local variable that was never assigned

Range(s) == {s[i] : i \in DOMAIN s}
Restrict(f, S) == [k \in (DOMAIN f) \cap S |-> f[k]]
\* dict(a, **b): the keys of b override those of a
DictMerge(a, b) == b @@ a

----------------------------------------------------------------------------
(* Inputs *)

Kinds == {"VLine", "HLine", "VSpan", "HSpan", "Slope", "Text", "Arrow", "Spline"}

OptNames == {"color", "linewidth", "fontsize", "textsize"}
OptValues(name) == IF name \in {"fontsize", "textsize"} THEN {1, 2} ELSE {1}

\* style_opts of each plot class, restricted to OptNames
style_opts(k) ==
    CASE k \in {"VLine", "HLine", "VSpan", "HSpan", "Slope"} -> {"color", "linewidth"}
      [] k = "Text"   -> {"color"}
      [] k = "Arrow"  -> {"color", "linewidth", "fontsize", "textsize"}
      [] k = "Spline" -> {"linewidth"}

\* the style mappings the host hands to a plot of kind k
StyleOpts(k) ==
    UNION {{f \in [S -> {1, 2}] : \A n \in S : f[n] \in OptValues(n)} :
           S \in SUBSET style_opts(k)}

Gradients == {-1, 0, 1}
Directions == {"v", "^", "<", ">", "V"}

\* path codes of a spline with the given vertices: MOVETO then LINETO
PathCodes(verts) == [i \in DOMAIN verts |-> IF i = 1 THEN 1 ELSE 2]

SetMax(S) == CHOOSE m \in S : \A x \in S : x <= m
\* three positions with coordinates in C: two off the diagonal, one far
PointsOf(C) == {<<0, 1>>, <<1, 0>>, <<SetMax(C), SetMax(C)>>}

\* annotation.data of an annotation of kind k, with coordinates in C and at
\* most nv spline vertices
DataOver(k, C, nv) ==
    CASE k \in {"VLine", "HLine"} -> {<<p>> : p \in C}
      [] k \in {"VSpan", "HSpan"} -> {<<a, b>> : a \in C, b \in C}
      [] k = "Slope" -> {<<g, c>> : g \in Gradients, c \in C}
      [] k = "Text"  -> {<<xy[1], xy[2], 7, 12, "center", "center", 0>> :
                           xy \in PointsOf(C)}
      [] k = "Arrow" -> {<<xy[1], xy[2], 7, dp[1], dp[2], "->">> :
                           xy \in PointsOf(C),
                           dp \in Directions \X (C \ {0})}
      [] k = "Spline" -> {<<v, PathCodes(v)>> :
                           v \in UNION {[1..n -> PointsOf(C)] : n \in 0..nv}}

Data(k) == DataOver(k, Coords, MaxVerts)

\* the frames of the plot's HoloMap
Frames(k) == DataOver(k, {0, 1}, 1)

----------------------------------------------------------------------------
(* draw_annotation of the eight AnnotationPlot subclasses.  accept is the   *)
(* canvas's verdict on the primitive: when it is FALSE the canvas call      *)
(* raises.  The result lists the canvas calls made, in order.               *)

Call(fn, args, kw) == [fn |-> fn, args |-> args, kw |-> kw]
Drawn(calls, warnings) == [raised |-> FALSE, calls |-> calls, warnings |-> warnings]
Raised(warnings) == [raised |-> TRUE, calls |-> <<>>, warnings |-> warnings]
Canvas(accept, call, warnings) ==
    IF accept THEN Drawn(<<call>>, warnings) ELSE Raised(warnings)

VLinePlot_draw(inv, position, opts, accept) ==
    IF inv THEN Canvas(accept, Call("axhline", position, opts), 0)
    ELSE Canvas(accept, Call("axvline", position, opts), 0)

HLinePlot_draw(inv, position, opts, accept) ==
    IF inv THEN Canvas(accept, Call("axvline", position, opts), 0)
    ELSE Canvas(accept, Call("axhline", position, opts), 0)

VSpanPlot_draw(inv, positions, opts, accept) ==
    IF inv THEN Canvas(accept, Call("axhspan", positions, opts), 0)
    ELSE Canvas(accept, Call("axvspan", positions, opts), 0)

HSpanPlot_draw(inv, positions, opts, accept) ==
    IF inv THEN Canvas(accept, Call("axvspan", positions, opts), 0)
    ELSE Canvas(accept, Call("axhspan", positions, opts), 0)

\* The inverted branch rebinds the locals gradient and intercept and never
\* reads them again: the line is built from position in both branches.
SlopePlot_draw(inv, position, opts, accept) ==
    Canvas(accept, Call("ABLine2D", <<position[1], position[2]>>, opts), 0)

TextPlot_draw(inv, data, opts, accept) ==
    LET x == IF inv THEN data[2] ELSE data[1]
        y == IF inv THEN data[1] ELSE data[2]
        opts2 == DictMerge(opts, "fontsize" :> data[4])
        kw == DictMerge([horizontalalignment |-> data[5],
                         verticalalignment |-> data[6],
                         rotation |-> data[7]], opts2)
    IN Canvas(accept, Call("text", <<x, y, data[3]>>, kw), 0)

_arrow_style_opts == {"alpha", "color", "lw", "linewidth", "visible"}
_text_style_opts == {"alpha", "color", "family", "weight", "visible",
                     "textsize", "fontsize"}

\* str.lower on a direction code
Lower(d) == IF d = "V" THEN "v" ELSE d

ArrowOffsetFlipped(direction, points) ==
    IF direction \in {"v", "^"}
    THEN <<0, IF direction = "v" THEN -points ELSE points>>
    ELSE IF direction \in {">", "<"}
    THEN <<IF direction = "<" THEN points ELSE -points, 0>>
    ELSE Unbound

\* xytext; it stays unbound for a direction outside the four codes
ArrowOffset(direction, points) ==
    IF direction \in {"v", "^"}
    THEN <<0, IF direction = "v" THEN points ELSE -points>>
    ELSE IF direction \in {">", "<"}
    THEN <<IF direction = "<" THEN points ELSE -points, 0>>
    ELSE Unbound

ArrowTextoptsNoRename(textopts) == textopts

\* if 'textsize' in textopts: textopts['fontsize'] = textopts.pop('textsize')
ArrowTextopts(textopts) ==
    IF "textsize" \in DOMAIN textopts
    THEN DictMerge(Restrict(textopts, (DOMAIN textopts) \ {"textsize"}),
                   "fontsize" :> textopts["textsize"])
    ELSE textopts

ArrowPlot_draw(inv, data, opts, accept) ==
    LET x == IF inv THEN data[2] ELSE data[1]
        y == IF inv THEN data[1] ELSE data[2]
        direction == Lower(data[4])
        arrowprops == DictMerge("arrowstyle" :> data[6],
                                Restrict(opts, _arrow_style_opts))
        textopts == Restrict(opts, _text_style_opts)
        xytext == ArrowOffset(direction, data[5])
        warnings == IF "fontsize" \in DOMAIN textopts THEN 1 ELSE 0
        kw == DictMerge([xy |-> <<x, y>>, textcoords |-> "offset points",
                         xytext |-> xytext, ha |-> "center", va |-> "center",
                         arrowprops |-> arrowprops],
                        ArrowTextopts(textopts))
    IN IF xytext = Unbound THEN Raised(warnings)
       ELSE Canvas(accept, Call("annotate", <<data[3]>>, kw), warnings)

SplinePlot_draw(inv, data, opts, accept) ==
    IF Len(data[1]) = 0 THEN Drawn(<<>>, 0)
    ELSE Canvas(accept,
                Call("add_patch", <<data[1], data[2]>>,
                     DictMerge("facecolor" :> "none", opts)), 0)

draw_annotation(k, inv, data, opts, accept) ==
    CASE k = "VLine"  -> VLinePlot_draw(inv, data, opts, accept)
      [] k = "HLine"  -> HLinePlot_draw(inv, data, opts, accept)
      [] k = "VSpan"  -> VSpanPlot_draw(inv, data, opts, accept)
      [] k = "HSpan"  -> HSpanPlot_draw(inv, data, opts, accept)
      [] k = "Slope"  -> SlopePlot_draw(inv, data, opts, accept)
      [] k = "Text"   -> TextPlot_draw(inv, data, opts, accept)
      [] k = "Arrow"  -> ArrowPlot_draw(inv, data, opts, accept)
      [] k = "Spline" -> SplinePlot_draw(inv, data, opts, accept)

----------------------------------------------------------------------------
(* ABLine2D *)

\* Axes.get_xbound: the x limits in increasing order
get_xbound(lim) == IF lim[1] <= lim[2] THEN lim ELSE <<lim[2], lim[1]>>

_update_limNoIntercept(line, lim) ==
    LET x == get_xbound(lim)
    IN [line EXCEPT !.xdata = x,
                    !.ydata = <<line.slope * x[1], line.slope * x[2]>>]

\* ABLine2D._update_lim: set_data(x, slope * x + intercept)
_update_lim(line, lim) ==
    LET x == get_xbound(lim)
    IN [line EXCEPT !.xdata = x,
                    !.ydata = <<line.slope * x[1] + line.intercept,
                                line.slope * x[2] + line.intercept>>]

\* ABLine2D.__init__ up to the first _update_lim
ABLine2D(slope, intercept, lim) ==
    _update_lim([slope |-> slope, intercept |-> intercept,
                 xdata |-> <<>>, ydata |-> <<>>], lim)

\* The axes callback registry keeps a connected bound method only while its
\* object is referenced: here, by the axis or by self.handles['annotations'].
Referenced(ch, stored) == ch \cup Range(stored)
Connected(cbs, ch, stored) == cbs \cap Referenced(ch, stored)
Kept(ls, ch, stored) == Restrict(ls, Referenced(ch, stored))

\* callbacks.process('xlim_changed' | 'ylim_changed'): every connected
\* _update_lim runs; a line still attached to the axis recomputes its data
Notify(ls, cbs, ch, lim) ==
    [l \in DOMAIN ls |->
        IF l \in cbs /\ l \in ch THEN _update_lim(ls[l], lim) ELSE ls[l]]

----------------------------------------------------------------------------
(* AnnotationPlot *)

\* abbreviated_exception: a failure raised inside the block is caught and
\* reported as a diagnostic
abbreviated_exception(raisedInside) ==
    [propagates |-> FALSE, diagnostics |-> IF raisedInside THEN 1 ELSE 0]

\* drew: draw_annotation returned; count: the primitives it created;
\* raised: the operation ended in an exception
Outcome(op, drew, raised, count, diagnostics) ==
    [op |-> op, drew |-> drew, raised |-> raised, count |-> count,
     diagnostics |-> diagnostics]

\* identities of the n artists a draw creates
Fresh(n) == [i \in 1..n |-> nextId + i - 1]

\* what a successful draw leaves on the axis
Register(r, d, ch, stored) ==
    LET new == Fresh(Len(r.calls))
        ch2 == ch \cup Range(new)
        made == IF kind = "Slope" /\ Len(new) = 1
                THEN new[1] :> ABLine2D(d[1], d[2], xlim)
                ELSE <<>>
        cbs2 == IF kind = "Slope" THEN callbacks \cup Range(new) ELSE callbacks
    IN /\ nextId + Len(new) - 1 <= MaxHandles
       /\ nextId' = nextId + Len(new)
       /\ annotations' = new
       /\ children' = ch2
       /\ lines' = Kept(made @@ lines, ch2, new)
       /\ callbacks' = Connected(cbs2, ch2, new)

initialize_plot(d, opts, accept) ==
    /\ phase = "constructed"
    /\ LET r == draw_annotation(kind, invert_axes, d, opts, accept)
           ctx == abbreviated_exception(r.raised)
           \* the with block is left without binding the local handles, and
           \* the assignment that follows it reads handles
           unbound == r.raised
       IN IF ctx.propagates \/ unbound
          THEN /\ phase' = "failed"
               /\ last' = Outcome("initialize", FALSE, TRUE, 0, ctx.diagnostics)
               /\ UNCHANGED <<annotations, children, nextId, lines, callbacks>>
          ELSE /\ Register(r, d, children, annotations)
               /\ phase' = "initialized"
               /\ last' = Outcome("initialize", TRUE, FALSE, Len(r.calls), 0)
    /\ UNCHANGED <<kind, invert_axes, xlim, removes, staleRuns>>
    /\ UNCHANGED renderVars

\* Artist.remove of an artist registered with the axis
ArtistRemove(e, ch) == ch \ {e}

RECURSIVE RemoveLoop(_, _, _)
\* for element in self.handles['annotations']: element.remove()
\* remove() of an artist the axis no longer holds raises
RemoveLoop(elems, ch, cnt) ==
    IF elems = <<>> THEN [children |-> ch, removes |-> cnt, raised |-> FALSE]
    ELSE LET e == Head(elems)
             cnt2 == [cnt EXCEPT ![e] = IF @ < 2 THEN @ + 1 ELSE @]
         IN IF e \in ch
            THEN RemoveLoop(Tail(elems), ArtistRemove(e, ch), cnt2)
            ELSE [children |-> ch, removes |-> cnt2, raised |-> TRUE]

update_handles(d, opts, accept) ==
    /\ phase # "constructed"
    /\ LET rm == RemoveLoop(annotations, children, removes)
           r == draw_annotation(kind, invert_axes, d, opts, accept)
           ctx == abbreviated_exception(r.raised)
       IN /\ removes' = rm.removes
          /\ IF rm.raised
             THEN /\ last' = Outcome("update", FALSE, TRUE, 0, 0)
                  /\ children' = rm.children
                  /\ lines' = Kept(lines, rm.children, annotations)
                  /\ callbacks' = Connected(callbacks, rm.children, annotations)
                  /\ UNCHANGED <<annotations, nextId>>
             ELSE IF r.raised
             \* the assignment to self.handles['annotations'] never happens
             THEN /\ last' = Outcome("update", FALSE, ctx.propagates, 0,
                                     ctx.diagnostics)
                  /\ children' = rm.children
                  /\ lines' = Kept(lines, rm.children, annotations)
                  /\ callbacks' = Connected(callbacks, rm.children, annotations)
                  /\ UNCHANGED <<annotations, nextId>>
             ELSE /\ Register(r, d, rm.children, annotations)
                  /\ last' = Outcome("update", TRUE, FALSE, Len(r.calls), 0)
    /\ UNCHANGED <<kind, invert_axes, phase, xlim, staleRuns>>
    /\ UNCHANGED renderVars

----------------------------------------------------------------------------
(* The axis: a change of the view limits notifies the connected callbacks *)

\* view limits, in either direction
Limits == {l \in {0, 1, MaxCoord} \X {0, 1, MaxCoord} : l[1] # l[2]}

\* a connected _update_lim that belongs to a line already removed
StaleCallbacks == callbacks \ children

set_xlim(lim) ==
    /\ phase # "constructed"
    /\ xlim' = lim
    /\ lines' = Notify(lines, callbacks, children, lim)
    /\ staleRuns' = staleRuns \cup StaleCallbacks
    /\ UNCHANGED <<kind, invert_axes, phase, annotations, children, nextId,
                   callbacks, removes, last>>
    /\ UNCHANGED renderVars

\* the y limits themselves are read nowhere
ylim_changed ==
    /\ phase # "constructed"
    /\ lines' = Notify(lines, callbacks, children, xlim)
    /\ staleRuns' = staleRuns \cup StaleCallbacks
    /\ UNCHANGED <<kind, invert_axes, phase, annotations, children, nextId,
                   callbacks, xlim, removes, last>>
    /\ UNCHANGED renderVars

----------------------------------------------------------------------------
(* Lifecycle specification *)

NoJob == [kind |-> NoValue, invert_axes |-> FALSE, data |-> <<>>,
          opts |-> <<>>, accept |-> FALSE]
NoLabels == [invert_axes |-> FALSE, xoffset |-> None, yoffset |-> None,
             xs |-> <<>>, ys |-> <<>>, text |-> <<>>, cs |-> None,
             numeric |-> FALSE, cmap |-> NoValue, style |-> <<>>]
NoArgs == [args |-> <<>>, style |-> <<>>]
NoArtists == [calls |-> <<>>, artist |-> <<>>]

RenderIdle ==
    /\ job = NoJob /\ out = Drawn(<<>>, 0)
    /\ lab = NoLabels /\ stage = "idle" /\ labargs = NoArgs /\ labout = NoArtists

\* AnnotationPlot.__init__ on a fresh axis
Init ==
    /\ kind \in Kinds
    /\ invert_axes \in BOOLEAN
    /\ phase = "constructed"
    /\ annotations = <<>>
    /\ children = {}
    /\ nextId = 1
    /\ lines = <<>>
    /\ callbacks = {}
    /\ xlim = <<0, 1>>
    /\ removes = [h \in Ids |-> 0]
    /\ staleRuns = {}
    /\ last = Outcome("init", FALSE, FALSE, 0, 0)
    /\ RenderIdle

\* the styles of the plot's style cycle
CycleStyles(k) == {o \in StyleOpts(k) : DOMAIN o \subseteq {"color"}}

Initialize == \E d \in Frames(kind), opts \in CycleStyles(kind), accept \in BOOLEAN :
                  initialize_plot(d, opts, accept)
Update == \E d \in Frames(kind), opts \in CycleStyles(kind), accept \in BOOLEAN :
              update_handles(d, opts, accept)
SetXlim == \E lim \in Limits : set_xlim(lim)
SetYlim == ylim_changed

Next == Initialize \/ Update \/ SetXlim \/ SetYlim

Spec == Init /\ [][Next]_vars

----------------------------------------------------------------------------
(* Properties of the lifecycle *)

\* C1: after any update_handles, the artists registered with the axis are
\* exactly the handles stored in handles['annotations'], as many as the
\* draw of this frame created, each once: the handles of earlier frames are
\* gone and nothing is kept twice.
LiveHandlesAreStoredHandles ==
    last.op = "update" =>
        /\ children = Range(annotations)
        /\ Len(annotations) = last.count
        /\ Cardinality(children) = last.count

\* The same, for the updates whose draw_annotation returned.
HandlesMatchLastDraw ==
    (last.op = "update" /\ last.drew) =>
        /\ children = Range(annotations)
        /\ Len(annotations) = last.count
        /\ Cardinality(children) = last.count

\* C2: when the draw of initialize_plot fails, initialize_plot still
\* completes, and the stored handle list is empty.
InitializeSurvivesDrawFailure ==
    (last.op = "initialize" /\ ~last.drew) =>
        /\ ~last.raised
        /\ phase = "initialized"
        /\ annotations = <<>>

\* C3: every slope line on the axis holds x = the current x bounds and
\* y = slope * x + intercept at both of them.
SlopeLineTracksBounds ==
    \A l \in callbacks \cap children :
        LET x == get_xbound(xlim)
        IN /\ lines[l].xdata = x
           /\ lines[l].ydata = <<lines[l].slope * x[1] + lines[l].intercept,
                                 lines[l].slope * x[2] + lines[l].intercept>>

\* a slope line with an intercept, after the limits were set in decreasing
\* order
SlopeLineAfterLimitChange ==
    \E l \in callbacks \cap children :
        /\ lines[l].intercept # 0 /\ lines[l].slope # 0
        /\ xlim[1] > xlim[2]

\* C9: no artist receives remove() twice.
NoDoubleRemove == \A h \in Ids : removes[h] <= 1

\* C10: the limit callback of a slope line never runs once the line was
\* removed from the axis, and the connected callbacks do not accumulate.
CallbacksOnlyForRegisteredLines ==
    /\ staleRuns = {}
    /\ Cardinality(callbacks) <= 1

----------------------------------------------------------------------------
(* LabelsPlot *)

LabelStyles == {<<>>, [size |-> 9, horizontalalignment |-> "left"]}
ColorValues == {1, 2, 3}
LabelPoints == {<<0, 1>>, <<1, MaxCoord>>}
Offsets == {<<None, None>>, <<Some(1), None>>, <<Some(1), Some(2)>>}

\* a LabelsPlot with its element: the points, their text and, when
\* color_index names a dimension, the values cs of that dimension, of a
\* numeric dtype or not, with the range _norm_kwargs puts in the style
LabelsOver(n) ==
    {[invert_axes |-> inv, xoffset |-> off[1], yoffset |-> off[2],
      xs |-> [i \in 1..n |-> pts[i][1]], ys |-> [i \in 1..n |-> pts[i][2]],
      text |-> [i \in 1..n |-> i], cs |-> c[1], numeric |-> c[2],
      cmap |-> cm, style |-> st] :
        inv \in BOOLEAN,
        off \in Offsets,
        pts \in [1..n -> LabelPoints],
        c \in {<<None, FALSE>>} \cup
              {<<Some(v), num>> : v \in [1..n -> ColorValues], num \in BOOLEAN},
        cm \in {NoValue, "viridis"},
        st \in LabelStyles}

LabelsPlots == UNION {LabelsOver(n) : n \in 0..MaxPoints}

\* tdim.pprint_value
Pprint(v) == <<"str", v>>

\* xs += self.xoffset, on every point
Shift(zs, offset) ==
    IF offset = None THEN zs ELSE [i \in DOMAIN zs |-> zs[i] + offset[1]]

\* the style renames and defaults at the end of get_data
LabelStyle(style) ==
    LET s1 == IF "size" \in DOMAIN style
              THEN DictMerge(Restrict(style, (DOMAIN style) \ {"size"}),
                             "fontsize" :> style["size"])
              ELSE style
        s2 == IF "horizontalalignment" \in DOMAIN s1 THEN s1
              ELSE DictMerge(s1, "horizontalalignment" :> "center")
    IN IF "verticalalignment" \in DOMAIN s2 THEN s2
       ELSE DictMerge(s2, "verticalalignment" :> "center")

\* LabelsPlot.get_data.  positions holds the very arrays xs and ys, so the
\* in-place offsets reach it whichever way round it was built.
get_data(p) ==
    LET xs == Shift(p.xs, p.xoffset)
        ys == Shift(p.ys, p.yoffset)
        positions == IF p.invert_axes THEN <<ys, xs>> ELSE <<xs, ys>>
        text == [i \in DOMAIN p.text |-> Pprint(p.text[i])]
        style0 == IF p.cmap = NoValue THEN p.style
                  ELSE DictMerge(p.style, "cmap" :> p.cmap)
        style1 == IF p.cs = None THEN style0
                  ELSE DictMerge(style0, [vmin |-> 1, vmax |-> 3])
    IN [args |-> <<positions[1], positions[2], text, p.cs>>,
        style |-> LabelStyle(style1)]

\* the palette applied to a value
Cmap(cmap, v) == <<cmap, v>>

RECURSIVE ListIndex(_, _, _)
\* list.index: the 0-based position of the first element equal to v
ListIndex(list, v, from) ==
    IF list[from + 1] = v THEN from ELSE ListIndex(list, v, from + 1)

SetMin(S) == CHOOSE m \in S : \A x \in S : m <= x
RECURSIVE SortedSeq(_)
SortedSeq(S) == IF S = {} THEN <<>> ELSE <<SetMin(S)>> \o SortedSeq(S \ {SetMin(S)})
\* list(np.unique(values)): the distinct values in increasing order
np_unique(values) == SortedSeq(Range(values))

CategoricalColorByPosition(colors, color, i) == i - 1

\* colors.index(color) if color in colors else np.NaN, for point i
CategoricalColor(colors, color, i) ==
    IF color \in Range(colors) THEN ListIndex(colors, color, 0) ELSE NaN

\* text_spec(i, item): the keywords of point i's text
text_spec(i, args, kwargs, cmap, colors, numeric) ==
    IF Len(args) = 4 /\ cmap # NoValue
    THEN LET color == args[4][1][i]
         IN IF numeric
            THEN DictMerge(kwargs,
                   "color" :> Cmap(cmap, <<color - kwargs["vmin"],
                                           kwargs["vmax"] - kwargs["vmin"]>>))
            ELSE DictMerge(kwargs,
                   "color" :> Cmap(cmap, CategoricalColor(colors, color, i)))
    ELSE kwargs

PreregisterAlways(xs, ys) ==
    <<Call("scatter", <<xs, ys>>, [s |-> 0, alpha |-> 0])>>

\* if text_specs: ax.scatter(xs, ys, s=0, alpha=0)
Preregister(xs, ys) ==
    IF Len(xs) > 0
    THEN <<Call("scatter", <<xs, ys>>, [s |-> 0, alpha |-> 0])>>
    ELSE <<>>

\* LabelsPlot.init_artists: the canvas calls in order, and under 'artist'
\* the handles of the texts, each named by the position of its call
init_artists(plot_args, plot_kwargs, numeric) ==
    LET colored == plot_args[4] # None
        cmap == IF colored /\ "cmap" \in DOMAIN plot_kwargs
                THEN plot_kwargs["cmap"] ELSE NoValue
        colors == IF colored THEN np_unique(plot_args[4][1]) ELSE <<>>
        args == IF colored THEN plot_args ELSE SubSeq(plot_args, 1, 3)
        kwargs == IF colored
                  THEN Restrict(plot_kwargs, (DOMAIN plot_kwargs) \ {"cmap"})
                  ELSE plot_kwargs
        \* kwargs once vmin and vmax are popped as well; every later write
        \* to plot_kwargs sets 'color' alone, which each point overwrites
        passed(kw) == Restrict(kw, (DOMAIN kw) \ {"vmin", "vmax"})
        n == Len(args[1])
        pre == Preregister(args[1], args[2])
        texts == [i \in 1..n |->
                    Call("text", <<args[1][i], args[2][i], args[3][i]>>,
                         passed(text_spec(i, args, kwargs, cmap, colors, numeric)))]
    IN [calls |-> pre \o texts,
        artist |-> [i \in 1..n |-> Len(pre) + i]]

----------------------------------------------------------------------------
(* Render specification: one draw_annotation call, or one LabelsPlot taken  *)
(* through get_data and init_artists                                        *)

DrawJobs ==
    UNION {{[kind |-> k, invert_axes |-> inv, data |-> d, opts |-> o,
             accept |-> a] :
              inv \in BOOLEAN, d \in Data(k), o \in StyleOpts(k),
              a \in BOOLEAN} : k \in Kinds}

LifeIdle ==
    /\ kind = NoValue /\ invert_axes = FALSE /\ phase = "idle"
    /\ annotations = <<>> /\ children = {} /\ nextId = 1 /\ lines = <<>>
    /\ callbacks = {} /\ xlim = <<0, 1>> /\ removes = <<>> /\ staleRuns = {}
    /\ last = Outcome("idle", FALSE, FALSE, 0, 0)

InitRender ==
    /\ LifeIdle
    /\ out = Drawn(<<>>, 0) /\ labargs = NoArgs /\ labout = NoArtists
    /\ \/ job \in DrawJobs /\ lab = NoLabels /\ stage = "job"
       \/ job = NoJob /\ lab \in LabelsPlots /\ stage = "new"

Draw ==
    /\ stage = "job"
    /\ stage' = "drawn"
    /\ out' = draw_annotation(job.kind, job.invert_axes, job.data, job.opts,
                              job.accept)
    /\ UNCHANGED <<job, lab, labargs, labout>>
    /\ UNCHANGED lifeVars

GetData ==
    /\ stage = "new"
    /\ labargs' = get_data(lab)
    /\ stage' = "data"
    /\ UNCHANGED <<job, out, lab, labout>>
    /\ UNCHANGED lifeVars

InitArtists ==
    /\ stage = "data"
    /\ labout' = init_artists(labargs.args, labargs.style, lab.numeric)
    /\ stage' = "artists"
    /\ UNCHANGED <<job, out, lab, labargs>>
    /\ UNCHANGED lifeVars

NextRender == Draw \/ GetData \/ InitArtists

SpecRender == InitRender /\ [][NextRender]_vars

----------------------------------------------------------------------------
(* Properties of the renderers *)

\* the same annotation with the roles of x and y exchanged
SwapKind(k) ==
    CASE k = "VLine" -> "HLine" [] k = "HLine" -> "VLine"
      [] k = "VSpan" -> "HSpan" [] k = "HSpan" -> "VSpan"
      [] OTHER -> k

\* for a slope line, the same line read as x in terms of y
SwapData(k, d) ==
    CASE k \in {"Text", "Arrow"} -> [d EXCEPT ![1] = d[2], ![2] = d[1]]
      [] k = "Spline" -> <<[i \in DOMAIN d[1] |-> <<d[1][i][2], d[1][i][1]>>], d[2]>>
      [] k = "Slope" -> <<1 \div d[1], -(d[2] \div d[1])>>
      [] OTHER -> d

SwapLabels(p) ==
    [p EXCEPT !.invert_axes = ~p.invert_axes, !.xs = p.ys, !.ys = p.xs,
              !.xoffset = p.yoffset, !.yoffset = p.xoffset]

\* C4: drawing with the axes inverted and the roles of x and y exchanged
\* makes the same canvas call as drawing the original the other way.
\* (A slope line of gradient 0 has no exchanged form and is left out.)
AxisSwapSymmetry ==
    /\ (stage = "drawn" /\ ~(job.kind = "Slope" /\ job.data[1] = 0)) =>
           out = draw_annotation(SwapKind(job.kind), ~job.invert_axes,
                                 SwapData(job.kind, job.data), job.opts,
                                 job.accept)
    /\ stage \in {"data", "artists"} =>
           labargs.args = get_data(SwapLabels(lab)).args

Categorical == lab.cs # None /\ lab.cmap # NoValue /\ ~lab.numeric

\* C5: with a color mapping and non-numeric color values, the color of a
\* point is the palette at the rank of the point's value among the distinct
\* values, whatever the point's position; a value outside the distinct
\* values resolves to NaN.
CategoricalColorByValue ==
    /\ (stage = "artists" /\ Categorical) =>
           \A i \in DOMAIN lab.xs :
               LET cs == lab.cs[1]
                   rank == Cardinality({v \in Range(cs) : v < cs[i]})
               IN labout.calls[labout.artist[i]].kw["color"] =
                      Cmap(lab.cmap, rank)
    /\ \A S \in SUBSET ColorValues : \A v \in ColorValues \ S :
           \A i \in 1..MaxPoints :
               CategoricalColor(SortedSeq(S), v, i) = NaN

\* the first point holds the greater value
ColorsAgainstPosition ==
    /\ stage = "artists" /\ Categorical
    /\ Len(lab.xs) >= 2 /\ lab.cs[1][1] > lab.cs[1][2]

ArrowDrawn == stage = "drawn" /\ job.kind = "Arrow" /\ job.accept

\* C6: the text offset of an arrow is (0, p) for 'v', (0, -p) for '^',
\* (p, 0) for '<' and (-p, 0) for '>', whatever the case of the code, and
\* every direction code yields an offset.
ArrowOffsets ==
    ArrowDrawn =>
        /\ ~out.raised
        /\ LET d == job.data[4]
               p == job.data[5]
               off == out.calls[1].kw["xytext"]
           IN /\ d \in {"v", "V"} => off = <<0, p>>
              /\ d = "^" => off = <<0, -p>>
              /\ d = "<" => off = <<p, 0>>
              /\ d = ">" => off = <<-p, 0>>

UpperCaseArrowDrawn == ArrowDrawn /\ job.data[4] = "V" /\ job.invert_axes

\* C7: init_artists returns one text handle per point, in input order; the
\* scatter call is made once, before the first text, when there is a point,
\* and no canvas call at all is made when there is none.
LabelsOneTextPerPoint ==
    stage = "artists" =>
        LET n == Len(lab.xs)
            calls == labout.calls
        IN /\ Len(labout.artist) = n
           /\ Len(calls) = IF n = 0 THEN 0 ELSE n + 1
           /\ n >= 1 => calls[1].fn = "scatter"
           /\ \A i \in 1..n :
                  /\ labout.artist[i] = i + 1
                  /\ calls[i + 1].fn = "text"
                  /\ calls[i + 1].args = <<labargs.args[1][i],
                                           labargs.args[2][i],
                                           labargs.args[3][i]>>

TwoLabelsDrawn == stage = "artists" /\ Len(lab.xs) = 2

\* C8 as stated: a fontsize option is accepted with one deprecation
\* warning and reaches the canvas renamed to textsize; without it there is
\* no warning.
FontsizeRenamedToTextsize ==
    ArrowDrawn =>
        /\ ~out.raised
        /\ out.warnings = IF "fontsize" \in DOMAIN job.opts THEN 1 ELSE 0
        /\ "fontsize" \in DOMAIN job.opts =>
               LET kw == out.calls[1].kw
               IN /\ "textsize" \in DOMAIN kw
                  /\ kw["textsize"] = job.opts["fontsize"]

\* C8 amended: a fontsize option is accepted with one deprecation warning
\* and reaches the canvas as fontsize, the keyword the textsize option is
\* renamed to; a textsize given with it takes its place; no textsize
\* keyword reaches the canvas; without fontsize there is no warning.
FontsizeKeptTextsizeRenamed ==
    ArrowDrawn =>
        /\ ~out.raised
        /\ out.warnings = IF "fontsize" \in DOMAIN job.opts THEN 1 ELSE 0
        /\ LET kw == out.calls[1].kw
           IN /\ "textsize" \notin DOMAIN kw
              /\ "textsize" \in DOMAIN job.opts =>
                     kw["fontsize"] = job.opts["textsize"]
              /\ ("fontsize" \in DOMAIN job.opts
                    /\ "textsize" \notin DOMAIN job.opts) =>
                     kw["fontsize"] = job.opts["fontsize"]
              /\ ("fontsize" \notin DOMAIN job.opts
                    /\ "textsize" \notin DOMAIN job.opts) =>
                     "fontsize" \notin DOMAIN kw

BothSizesGiven ==
    /\ ArrowDrawn
    /\ {"fontsize", "textsize"} \subseteq DOMAIN job.opts
    /\ job.opts["fontsize"] # job.opts["textsize"]

====
